---- MODULE Spec2Model ----
(***************************************************************************)
(* Aureum API: the session store (session/store.py over redis/client.py),  *)
(* the recommendation engine (recommend/engine.py, recommend/heuristics.py *)
(* over core/ytmusic_client.py), the cache manifest generator              *)
(* (cache/manifest.py) and the intent classifier of the routes, as state   *)
(* machines.                                                               *)
(*                                                                         *)
(* Every `await` on the store is one step of the calling coroutine, so     *)
(* that concurrent handlers interleave exactly where asyncio lets them.    *)
(* Optional values are sequences of length 0 (None) or 1.                  *)
(* Floats are held in thousandths (1.0 is 1000).                           *)
(***************************************************************************)
EXTENDS Integers, Sequences, FiniteSets, TLC

None == "None"

(***************************************************************************)
(* Bounds of the model.                                                    *)
(***************************************************************************)
\* record_event invocations explored in one behaviour
MaxCalls == 3
\* settings.recent_activity_window (core/config.py:29) is 50; the list
\* capacity is run scaled down so that overflow is reached within MaxCalls
recent_activity_window == 2

Procs == {"p1", "p2"}
SessionIds == {"s1"}
UserIds == {"u1"}
VideoIds == {"v1", "v2"}
EventTypes == {"play", "skip", "like"}

\* the coroutines of the sequential specification
SeqProcs == {"p1"}

\* <<event_type, video_id, user_id>> of the record_event calls explored: both
\* tracked event types, an untracked one, and a missing video id or user id
CallArgs ==
    {<<"play", "v1", "u1">>, <<"skip", "v1", "u1">>, <<"play", "v2", "u1">>,
     <<"like", "v1", "u1">>, <<"play", None, "u1">>, <<"play", "v1", None>>}

(***************************************************************************)
(* Program constants.                                                      *)
(***************************************************************************)
session_ttl == 86400
event_ttl == 604800

VARIABLES
    redis_available,   \* the server answers (ping and commands succeed)
    session_store,     \* key session:{id}      -> <<>> or <<session_data>>
    user_sessions,     \* key user_sessions:{u} -> <<>> or <<session id>>
    event_keys,        \* number of keys event:{session}:{uuid} per session
    recent_activity,   \* list recent_activity:{u}, head first
    activity_ttl,      \* TTL of recent_activity:{u}; 0 is no TTL
    issued,            \* session ids uuid4 has produced
    clock,             \* datetime.utcnow(): one tick per record_event call
    pc,                \* position of each coroutine
    frame,             \* locals of each coroutine
    ret,               \* what the coroutine last returned to its caller
    rec_pc,            \* "idle", or "done" once a recommend call has answered
    rec_request,       \* the arguments of the recommend call, limit resolved
    rec_tracks,        \* its candidates (engine.py:46), each with its tier
    rec_ranked,        \* its list `ranked` before the sort (engine.py:194)
    rec_response,      \* the RecommendationResponse it returned
    gen_pc,            \* position of the generate_manifest coroutine
    gen_frame,         \* its locals
    gen_response       \* the CacheManifestResponse it returned

store_vars == <<session_store, user_sessions, event_keys, recent_activity, activity_ttl>>
proc_vars == <<pc, frame, ret>>
rec_vars == <<rec_pc, rec_request, rec_tracks, rec_ranked, rec_response>>
gen_vars == <<gen_pc, gen_frame, gen_response>>
vars == <<redis_available, session_store, user_sessions, event_keys,
          recent_activity, activity_ttl, issued, clock, pc, frame, ret,
          rec_pc, rec_request, rec_tracks, rec_ranked, rec_response,
          gen_pc, gen_frame, gen_response>>

NoFrame ==
    [session_id |-> None, event_type |-> None, video_id |-> None,
     user_id |-> None, timestamp |-> 0, success |-> FALSE, session_json |-> <<>>]

NoRet == [op |-> None, value |-> <<>>, raised |-> FALSE]

NoRequest ==
    [current_track |-> <<>>, activity |-> <<>>, user_id |-> None,
     taste_profile |-> <<>>, limit |-> 0]

NoResponse == [tracks |-> <<>>, labels |-> <<>>, context |-> <<>>, raised |-> FALSE]

\* the locals of generate_manifest and of the helpers it awaits
NoGenFrame ==
    [user_id |-> None,
     ytm |-> <<>>,              \* the global ytm during the call
     list_at_read |-> <<>>,     \* the user's list when must-cache read it
     activities |-> <<>>,       \* manifest.py:67, what lrange answered
     read_ok |-> FALSE,         \* that lrange answered
     personal |-> <<>>,         \* manifest.py:84, tracks before the padding
     must_cache |-> <<>>,       \* manifest.py:28
     engine_read_ok |-> FALSE,  \* engine.py:75, lrange answered
     recent_activity |-> <<>>,  \* manifest.py:101
     last_play |-> <<>>,        \* manifest.py:105-109
     engine_called |-> FALSE,   \* manifest.py:113 was reached
     engine_response |-> NoResponse,
     likely_next |-> <<>>,      \* manifest.py:29
     now |-> 0,                 \* the instant of utcnow(), in epoch seconds
     hour |-> 0,
     utc_offset |-> 0]

NoManifest == [must_cache |-> <<>>, likely_next |-> <<>>, expires_at |-> 0, raised |-> FALSE]

Init ==
    /\ redis_available = TRUE
    /\ session_store = [s \in SessionIds |-> <<>>]
    /\ user_sessions = [u \in UserIds |-> <<>>]
    /\ event_keys = [s \in SessionIds |-> 0]
    /\ recent_activity = [u \in UserIds |-> <<>>]
    /\ activity_ttl = [u \in UserIds |-> 0]
    /\ issued = {}
    /\ clock = 0
    /\ pc = [p \in Procs |-> "idle"]
    /\ frame = [p \in Procs |-> NoFrame]
    /\ ret = [p \in Procs |-> NoRet]
    /\ rec_pc = "idle"
    /\ rec_request = NoRequest
    /\ rec_tracks = <<>>
    /\ rec_ranked = <<>>
    /\ rec_response = NoResponse
    /\ gen_pc = "idle"
    /\ gen_frame = NoGenFrame
    /\ gen_response = NoManifest

(***************************************************************************)
(* The Volatile Store may become unreachable, and reachable again, at any  *)
(* time.                                                                   *)
(***************************************************************************)
RedisDown ==
    /\ redis_available
    /\ redis_available' = FALSE
    /\ UNCHANGED <<store_vars, issued, clock, proc_vars, rec_vars, gen_vars>>

RedisUp ==
    /\ ~redis_available
    /\ redis_available' = TRUE
    /\ UNCHANGED <<store_vars, issued, clock, proc_vars, rec_vars, gen_vars>>

(***************************************************************************)
(* redis/client.py                                                         *)
(***************************************************************************)
\* is_redis_available: the ping succeeds or its exception is swallowed
is_redis_available == redis_available

\* safe_redis_set returns True exactly when the write happened; a failed
\* ping or a raising set both end in `return False`
safe_redis_set_ok == is_redis_available

\* safe_redis_get: the value, or None when unreachable or absent
safe_redis_get(value) == IF is_redis_available THEN value ELSE <<>>

(***************************************************************************)
(* SessionStore.start_session                                              *)
(***************************************************************************)
NewSession(sid, user_id) ==
    [session_id |-> sid, user_id |-> user_id, event_count |-> 0,
     last_event_at |-> 0, ttl |-> session_ttl]

\* lines 26-35: uuid4 and the session_data dict; control reaches the first await
StartSessionCall(p, user_id) ==
    /\ pc[p] = "idle"
    /\ \E sid \in SessionIds \ issued :
          /\ issued' = issued \cup {sid}
          /\ frame' = [frame EXCEPT ![p] = [NoFrame EXCEPT !.session_id = sid,
                                                           !.user_id = user_id]]
    /\ pc' = [pc EXCEPT ![p] = "ss_set_session"]
    /\ UNCHANGED <<redis_available, store_vars, clock, ret, rec_vars, gen_vars>>

\* lines 38-46: await safe_redis_set(session_key, ...), then `if user_id`
StartSetSession(p) ==
    /\ pc[p] = "ss_set_session"
    /\ session_store' =
          IF safe_redis_set_ok
          THEN [session_store EXCEPT ![frame[p].session_id] =
                   <<NewSession(frame[p].session_id, frame[p].user_id)>>]
          ELSE session_store
    /\ pc' = [pc EXCEPT ![p] =
                 IF frame[p].user_id # None THEN "ss_set_user" ELSE "ss_return"]
    /\ UNCHANGED <<redis_available, user_sessions, event_keys, recent_activity,
                   activity_ttl, issued, clock, frame, ret, rec_vars, gen_vars>>

\* lines 47-52: await safe_redis_set(user_sessions_key, session_id, ...)
StartSetUser(p) ==
    /\ pc[p] = "ss_set_user"
    /\ user_sessions' =
          IF safe_redis_set_ok
          THEN [user_sessions EXCEPT ![frame[p].user_id] = <<frame[p].session_id>>]
          ELSE user_sessions
    /\ pc' = [pc EXCEPT ![p] = "ss_return"]
    /\ UNCHANGED <<redis_available, session_store, event_keys, recent_activity,
                   activity_ttl, issued, clock, frame, ret, rec_vars, gen_vars>>

\* a start_session that gives up when the session record was not written
StartSessionResultFailClosed(f) ==
    IF session_store[f.session_id] = <<>> THEN <<>> ELSE <<f.session_id>>

\* line 55: return session_id
StartSessionResult(f) == <<f.session_id>>

StartReturn(p) ==
    /\ pc[p] = "ss_return"
    /\ ret' = [ret EXCEPT ![p] = [op |-> "start_session",
                                  value |-> StartSessionResult(frame[p]),
                                  raised |-> FALSE]]
    /\ pc' = [pc EXCEPT ![p] = "done"]
    /\ frame' = [frame EXCEPT ![p] = NoFrame]
    /\ UNCHANGED <<redis_available, store_vars, issued, clock, rec_vars, gen_vars>>

(***************************************************************************)
(* SessionStore.record_event                                               *)
(***************************************************************************)
\* lines 67-81: timestamp defaults to utcnow(); event_data and event_key built
RecordEventCall(p, session_id, event_type, video_id, user_id) ==
    /\ pc[p] = "idle"
    /\ clock < MaxCalls
    /\ clock' = clock + 1
    /\ frame' = [frame EXCEPT ![p] =
                    [NoFrame EXCEPT !.session_id = session_id,
                                    !.event_type = event_type,
                                    !.video_id = video_id,
                                    !.user_id = user_id,
                                    !.timestamp = clock + 1]]
    /\ pc' = [pc EXCEPT ![p] = "re_set_event"]
    /\ UNCHANGED <<redis_available, store_vars, issued, ret, rec_vars, gen_vars>>

\* line 108: if user_id and video_id and event_type in ["play", "skip"]
TracksActivity(f) ==
    /\ f.user_id # None
    /\ f.video_id # None
    /\ f.event_type \in {"play", "skip"}

AfterSessionUpdate(f) == IF TracksActivity(f) THEN "re_lpush" ELSE "re_return"

\* a record_event that goes on to the session update whatever the write of
\* the event returned
RecordSetEventProceeds(p) ==
    /\ pc[p] = "re_set_event"
    /\ event_keys' =
          IF safe_redis_set_ok
          THEN [event_keys EXCEPT ![frame[p].session_id] = @ + 1]
          ELSE event_keys
    /\ frame' = [frame EXCEPT ![p].success = safe_redis_set_ok]
    /\ pc' = [pc EXCEPT ![p] = "re_get_session"]
    /\ UNCHANGED <<redis_available, session_store, user_sessions, recent_activity,
                   activity_ttl, issued, clock, ret, rec_vars, gen_vars>>

\* lines 84-90: success = await safe_redis_set(event_key, ...); if success
RecordSetEvent(p) ==
    /\ pc[p] = "re_set_event"
    /\ event_keys' =
          IF safe_redis_set_ok
          THEN [event_keys EXCEPT ![frame[p].session_id] = @ + 1]
          ELSE event_keys
    /\ frame' = [frame EXCEPT ![p].success = safe_redis_set_ok]
    /\ pc' = [pc EXCEPT ![p] = IF safe_redis_set_ok THEN "re_get_session" ELSE "re_return"]
    /\ UNCHANGED <<redis_available, session_store, user_sessions, recent_activity,
                   activity_ttl, issued, clock, ret, rec_vars, gen_vars>>

\* lines 92-94: session_json = await safe_redis_get(session_key); if session_json
RecordGetSession(p) ==
    /\ pc[p] = "re_get_session"
    /\ LET session_json == safe_redis_get(session_store[frame[p].session_id]) IN
          /\ frame' = [frame EXCEPT ![p].session_json = session_json]
          /\ pc' = [pc EXCEPT ![p] =
                       IF session_json # <<>> THEN "re_set_session"
                       ELSE AfterSessionUpdate(frame[p])]
    /\ UNCHANGED <<redis_available, store_vars, issued, clock, ret, rec_vars, gen_vars>>

\* lines 96-98: the copy read at the get, with event_count + 1 and last_event_at
UpdatedSession(f) ==
    [f.session_json[1] EXCEPT !.event_count = @ + 1,
                              !.last_event_at = f.timestamp,
                              !.ttl = session_ttl]

\* lines 99-103: await safe_redis_set(session_key, json.dumps(session_data), ...)
RecordSetSession(p) ==
    /\ pc[p] = "re_set_session"
    /\ session_store' =
          IF safe_redis_set_ok
          THEN [session_store EXCEPT ![frame[p].session_id] = <<UpdatedSession(frame[p])>>]
          ELSE session_store
    /\ pc' = [pc EXCEPT ![p] = AfterSessionUpdate(frame[p])]
    /\ UNCHANGED <<redis_available, user_sessions, event_keys, recent_activity,
                   activity_ttl, issued, clock, frame, ret, rec_vars, gen_vars>>

\* lines 123-127: the compact summary pushed on the user's list
ActivityItem(f) ==
    [video_id |-> f.video_id, event_type |-> f.event_type, timestamp |-> f.timestamp]

\* a push at the tail of the list
rpush(list, value) == list \o <<value>>

\* redis LPUSH: the value becomes the head of the list
lpush(list, value) == <<value>> \o list

\* a trim that keeps one entry past the end index
ltrimKeepsOneMore(list, start, end) ==
    SubSeq(list, start + 1, IF end + 2 < Len(list) THEN end + 2 ELSE Len(list))

\* redis LTRIM key start end with 0 <= start and 0 <= end (inclusive indices)
ltrim(list, start, end) ==
    SubSeq(list, start + 1, IF end + 1 < Len(list) THEN end + 1 ELSE Len(list))

\* line 136: await redis_client.lpush(...); an error leaves the try block
RecordLPush(p) ==
    /\ pc[p] = "re_lpush"
    /\ IF redis_available
       THEN /\ recent_activity' = [recent_activity EXCEPT ![frame[p].user_id] =
                                      lpush(@, ActivityItem(frame[p]))]
            /\ pc' = [pc EXCEPT ![p] = "re_ltrim"]
       ELSE /\ recent_activity' = recent_activity
            /\ pc' = [pc EXCEPT ![p] = "re_return"]
    /\ UNCHANGED <<redis_available, session_store, user_sessions, event_keys,
                   activity_ttl, issued, clock, frame, ret, rec_vars, gen_vars>>

\* line 137: await redis_client.ltrim(activity_key, 0, window - 1)
RecordLTrim(p) ==
    /\ pc[p] = "re_ltrim"
    /\ IF redis_available
       THEN /\ recent_activity' = [recent_activity EXCEPT ![frame[p].user_id] =
                                      ltrim(@, 0, recent_activity_window - 1)]
            /\ pc' = [pc EXCEPT ![p] = "re_expire"]
       ELSE /\ recent_activity' = recent_activity
            /\ pc' = [pc EXCEPT ![p] = "re_return"]
    /\ UNCHANGED <<redis_available, session_store, user_sessions, event_keys,
                   activity_ttl, issued, clock, frame, ret, rec_vars, gen_vars>>

\* line 138: await redis_client.expire(activity_key, self.event_ttl)
RecordExpire(p) ==
    /\ pc[p] = "re_expire"
    /\ activity_ttl' =
          IF redis_available /\ recent_activity[frame[p].user_id] # <<>>
          THEN [activity_ttl EXCEPT ![frame[p].user_id] = event_ttl]
          ELSE activity_ttl
    /\ pc' = [pc EXCEPT ![p] = "re_return"]
    /\ UNCHANGED <<redis_available, session_store, user_sessions, event_keys,
                   recent_activity, issued, clock, frame, ret, rec_vars, gen_vars>>

\* line 111: return success
RecordEventResult(f) == <<f.success>>

RecordReturn(p) ==
    /\ pc[p] = "re_return"
    /\ ret' = [ret EXCEPT ![p] = [op |-> "record_event",
                                  value |-> RecordEventResult(frame[p]),
                                  raised |-> FALSE]]
    /\ pc' = [pc EXCEPT ![p] = "done"]
    /\ frame' = [frame EXCEPT ![p] = NoFrame]
    /\ UNCHANGED <<redis_available, store_vars, issued, clock, rec_vars, gen_vars>>

\* the caller has taken the returned value; the coroutine is gone
Done(p) ==
    /\ pc[p] = "done"
    /\ pc' = [pc EXCEPT ![p] = "idle"]
    /\ ret' = [ret EXCEPT ![p] = NoRet]
    /\ UNCHANGED <<redis_available, store_vars, issued, clock, frame, rec_vars, gen_vars>>

NextStore ==
    \/ RedisDown
    \/ RedisUp
    \/ \E p \in SeqProcs, u \in UserIds \cup {None} : StartSessionCall(p, u)
    \/ \E p \in SeqProcs : StartSetSession(p)
    \/ \E p \in SeqProcs : StartSetUser(p)
    \/ \E p \in SeqProcs : StartReturn(p)
    \/ \E p \in SeqProcs, s \in SessionIds, a \in CallArgs :
          RecordEventCall(p, s, a[1], a[2], a[3])
    \/ \E p \in SeqProcs : RecordSetEvent(p)
    \/ \E p \in SeqProcs : RecordGetSession(p)
    \/ \E p \in SeqProcs : RecordSetSession(p)
    \/ \E p \in SeqProcs : RecordLPush(p)
    \/ \E p \in SeqProcs : RecordLTrim(p)
    \/ \E p \in SeqProcs : RecordExpire(p)
    \/ \E p \in SeqProcs : RecordReturn(p)
    \/ \E p \in SeqProcs : Done(p)

SpecStore == Init /\ [][NextStore]_vars

\* the record_event calls that line 108 lets through to the activity update
TrackedCallArgs == {a \in CallArgs : TracksActivity([event_type |-> a[1],
                                                      video_id |-> a[2],
                                                      user_id |-> a[3]])}

\* one caller at a time on a store that stays reachable, every record_event
\* call carrying a play or a skip of a track for a user
NextSequential ==
    \/ \E p \in SeqProcs, u \in UserIds \cup {None} : StartSessionCall(p, u)
    \/ \E p \in SeqProcs : StartSetSession(p)
    \/ \E p \in SeqProcs : StartSetUser(p)
    \/ \E p \in SeqProcs : StartReturn(p)
    \/ \E p \in SeqProcs, s \in SessionIds, a \in TrackedCallArgs :
          RecordEventCall(p, s, a[1], a[2], a[3])
    \/ \E p \in SeqProcs : RecordSetEvent(p)
    \/ \E p \in SeqProcs : RecordGetSession(p)
    \/ \E p \in SeqProcs : RecordSetSession(p)
    \/ \E p \in SeqProcs : RecordLPush(p)
    \/ \E p \in SeqProcs : RecordLTrim(p)
    \/ \E p \in SeqProcs : RecordExpire(p)
    \/ \E p \in SeqProcs : RecordReturn(p)
    \/ \E p \in SeqProcs : Done(p)

SpecSequential == Init /\ [][NextSequential]_vars

\* the state after start_session(user_id="u1") has returned "s1" on a
\* reachable store (lines 26-55)
InitLive ==
    /\ redis_available = TRUE
    /\ session_store = [s \in SessionIds |->
                           IF s = "s1" THEN <<NewSession("s1", "u1")>> ELSE <<>>]
    /\ user_sessions = [u \in UserIds |-> IF u = "u1" THEN <<"s1">> ELSE <<>>]
    /\ event_keys = [s \in SessionIds |-> 0]
    /\ recent_activity = [u \in UserIds |-> <<>>]
    /\ activity_ttl = [u \in UserIds |-> 0]
    /\ issued = {"s1"}
    /\ clock = 0
    /\ pc = [p \in Procs |-> "idle"]
    /\ frame = [p \in Procs |-> NoFrame]
    /\ ret = [p \in Procs |-> NoRet]
    /\ rec_pc = "idle"
    /\ rec_request = NoRequest
    /\ rec_tracks = <<>>
    /\ rec_ranked = <<>>
    /\ rec_response = NoResponse
    /\ gen_pc = "idle"
    /\ gen_frame = NoGenFrame
    /\ gen_response = NoManifest

\* record_event calls of concurrent handlers for the live session, on a
\* store that stays reachable; the handlers interleave at every await
NextConcurrent ==
    \/ \E p \in Procs, a \in CallArgs : RecordEventCall(p, "s1", a[1], a[2], a[3])
    \/ \E p \in Procs : RecordSetEvent(p)
    \/ \E p \in Procs : RecordGetSession(p)
    \/ \E p \in Procs : RecordSetSession(p)
    \/ \E p \in Procs : RecordLPush(p)
    \/ \E p \in Procs : RecordLTrim(p)
    \/ \E p \in Procs : RecordExpire(p)
    \/ \E p \in Procs : RecordReturn(p)
    \/ \E p \in Procs : Done(p)

SpecConcurrent == InitLive /\ [][NextConcurrent]_vars

(***************************************************************************)
(* routes/play.py and routes/serarch.py: get_session_intent                *)
(***************************************************************************)
\* an intent policy that reports a loop for a session whose store answers
get_session_intent_detecting(session_id, client) ==
    IF session_id = None THEN "neutral"
    ELSE IF client # <<>> /\ redis_available THEN "artist-loop"
    ELSE "neutral"

\* routes/play.py:11-24. client is what get_redis_client() returned, <<>>
\* for None; get_redis_client catches its own exceptions (client.py:140-143)
get_session_intent_play(session_id, client) ==
    IF session_id = None THEN "neutral"
    ELSE IF client # <<>> THEN "neutral"
    ELSE "neutral"

\* routes/serarch.py:11-25
get_session_intent_search(session_id, client) ==
    IF session_id = None THEN "neutral"
    ELSE IF client # <<>> THEN "neutral"
    ELSE "neutral"

\* what get_redis_client() may give: None or the client
RedisClients == {<<>>, <<"client">>}

Routes == {"play", "search"}

\* get_session_intent has no await: the call is one step
GetSessionIntent(p, route, session_id, client) ==
    /\ pc[p] = "idle"
    /\ ret' = [ret EXCEPT ![p] =
                  [op |-> "get_session_intent",
                   value |-> <<IF route = "play"
                               THEN get_session_intent_play(session_id, client)
                               ELSE get_session_intent_search(session_id, client)>>,
                   raised |-> FALSE,
                   route |-> route,
                   session_id |-> session_id]]
    /\ pc' = [pc EXCEPT ![p] = "done"]
    /\ UNCHANGED <<redis_available, store_vars, issued, clock, frame, rec_vars, gen_vars>>

\* the session store with the intent classifier called between its calls
NextIntent ==
    \/ NextStore
    \/ \E p \in SeqProcs, route \in Routes, session_id \in SessionIds \cup {None},
          client \in RedisClients : GetSessionIntent(p, route, session_id, client)

SpecIntent == Init /\ [][NextIntent]_vars

(***************************************************************************)
(* Strings. TLC gives Len, \o and SubSeq on strings; the rest is built     *)
(* from them.                                                              *)
(***************************************************************************)
Min(a, b) == IF a < b THEN a ELSE b

\* Python s[:n] for n >= 0
Take(s, n) == SubSeq(s, 1, Min(n, Len(s)))

\* Python s[-n:] for n > 0
LastN(s, n) == SubSeq(s, IF Len(s) > n THEN Len(s) - n + 1 ELSE 1, Len(s))

CharAt(s, i) == SubSeq(s, i, i)

\* str.lower() on one character
LowerChar(c) ==
    CASE c = "A" -> "a" [] c = "B" -> "b" [] c = "C" -> "c" [] c = "D" -> "d"
      [] c = "E" -> "e" [] c = "F" -> "f" [] c = "G" -> "g" [] c = "H" -> "h"
      [] c = "I" -> "i" [] c = "J" -> "j" [] c = "K" -> "k" [] c = "L" -> "l"
      [] c = "M" -> "m" [] c = "N" -> "n" [] c = "O" -> "o" [] c = "P" -> "p"
      [] c = "Q" -> "q" [] c = "R" -> "r" [] c = "S" -> "s" [] c = "T" -> "t"
      [] c = "U" -> "u" [] c = "V" -> "v" [] c = "W" -> "w" [] c = "X" -> "x"
      [] c = "Y" -> "y" [] c = "Z" -> "z" [] OTHER -> c

RECURSIVE Lower(_)
Lower(s) ==
    IF Len(s) = 0 THEN s
    ELSE LowerChar(CharAt(s, 1)) \o Lower(SubSeq(s, 2, Len(s)))

\* Python `needle in hay` on strings
Contains(hay, needle) ==
    \E i \in 0..(Len(hay) - Len(needle)) : SubSeq(hay, i + 1, i + Len(needle)) = needle

\* index of the first occurrence of sep in s, 0 when there is none
Find(s, sep) ==
    LET hits == {i \in 1..(Len(s) - Len(sep) + 1) : SubSeq(s, i, i + Len(sep) - 1) = sep}
    IN  IF hits = {} THEN 0 ELSE CHOOSE i \in hits : \A j \in hits : i <= j

\* s.split(sep)
RECURSIVE Split(_, _)
Split(s, sep) ==
    LET i == Find(s, sep)
    IN  IF i = 0 THEN <<s>>
        ELSE <<SubSeq(s, 1, i - 1)>> \o Split(SubSeq(s, i + Len(sep), Len(s)), sep)

\* sep.join(parts)
RECURSIVE Join(_, _)
Join(parts, sep) ==
    IF Len(parts) = 0 THEN ""
    ELSE IF Len(parts) = 1 THEN parts[1]
    ELSE parts[1] \o sep \o Join(Tail(parts), sep)

Digits == <<"0", "1", "2", "3", "4", "5", "6", "7", "8", "9">>

IsDigit(c) == \E d \in 1..10 : Digits[d] = c

DigitValue(c) == (CHOOSE d \in 1..10 : Digits[d] = c) - 1

\* int(s) succeeds
IsInt(s) == Len(s) > 0 /\ \A i \in 1..Len(s) : IsDigit(CharAt(s, i))

\* int(s) for a string of digits
RECURSIVE ParseInt(_)
ParseInt(s) ==
    IF Len(s) = 0 THEN 0
    ELSE 10 * ParseInt(SubSeq(s, 1, Len(s) - 1)) + DigitValue(CharAt(s, Len(s)))

(***************************************************************************)
(* core/ytmusic_client.py: search_songs over the upstream catalog.         *)
(* The upstream library is a set of entries; a search returns, in library  *)
(* order, the entries the upstream engine matches to the query.            *)
(***************************************************************************)
Universe ==
    << [has_id |-> TRUE, videoId |-> "a", title |-> "One",
        artists |-> <<"Drake", "Sia">>, thumbnails |-> <<"lo.jpg", "hi.jpg">>,
        duration |-> "3:20",
        matches |-> {"j. cole", "kendrick lamar", "hip hop", "pop music", "popular music"}],
       [has_id |-> TRUE, videoId |-> "b", title |-> "Two",
        artists |-> <<"DRAKE">>, thumbnails |-> <<>>,
        duration |-> "2:30",
        matches |-> {"kendrick lamar", "travis scott", "rock music", "chill",
                     "jazz music", "popular music"}],
       [has_id |-> TRUE, videoId |-> "c", title |-> "Punjabi",
        artists |-> <<"Shubh">>, thumbnails |-> <<"c.jpg">>,
        duration |-> "1:40",
        matches |-> {"punjabi music", "upbeat", "lofi beats", "ambient", "pop music",
                     "popular music"}],
       [has_id |-> TRUE, videoId |-> "d", title |-> "Four",
        artists |-> <<"AP">>, thumbnails |-> <<"d.jpg">>,
        duration |-> "1:00:00",
        matches |-> {"punjabi music", "rock music", "hip hop", "lofi beats",
                     "jazz music", "ambient", "chill", "upbeat"}],
       [has_id |-> FALSE, videoId |-> "", title |-> "Live",
        artists |-> <<>>, thumbnails |-> <<>>,
        duration |-> "live",
        matches |-> {"pop music", "popular music"}] >>

\* the chart entries of the upstream, found by the "hits" and "trending"
\* searches of cache/manifest.py; the first is a track users also play
HitIds == <<"v1", "h2", "h3", "h4", "h5", "h6", "h7", "h8", "h9", "h10">>

Hits ==
    [n \in 1..Len(HitIds) |->
        [has_id |-> TRUE, videoId |-> HitIds[n], title |-> "Hit",
         artists |-> <<"Sia">>, thumbnails |-> <<>>, duration |-> "3:00",
         matches |-> (IF n <= 5 THEN {"pop hits 2024"} ELSE {})
                     \cup (IF n >= 5 THEN {"hip hop hits 2024"} ELSE {})
                     \cup {"trending music"}]]

\* everything the upstream may know
Catalog == Universe \o Hits

HitEntries == (Len(Universe) + 1)..Len(Catalog)

\* the entries every upstream library explored holds
AlwaysServed == {4, 5}

\* the global ytm: None, or a client over the entries the upstream serves.
\* ytmusicapi fetches whole result pages, so a search may hand back more
\* than `limit` results (honors_limit FALSE) or stop at `limit`; a client
\* whose upstream is out of reach raises on every search (fails TRUE).
YtmClients ==
    {<<>>} \cup
    {<<[library |-> AlwaysServed, honors_limit |-> TRUE, fails |-> TRUE]>>} \cup
    {<<[library |-> lib \cup AlwaysServed, honors_limit |-> h, fails |-> FALSE]>> :
        lib \in SUBSET ((1..Len(Universe)) \ AlwaysServed), h \in BOOLEAN}

\* ytm.search(query, filter="songs", limit=limit)
\* the results are named by their position in Catalog
YtmSearch(client, query, limit) ==
    LET found == SelectSeq([i \in 1..Len(Catalog) |-> i],
                           LAMBDA i : i \in client.library /\ query \in Catalog[i].matches)
    IN  IF client.honors_limit THEN Take(found, limit) ELSE found

\* lines 221-231: duration "m:ss" or "h:mm:ss" to seconds, 0 when unparseable
DurationSeconds(dur) ==
    IF ~Contains(dur, ":") THEN 0
    ELSE LET parts == Split(dur, ":") IN
         IF \E k \in 1..Len(parts) : ~IsInt(parts[k]) THEN 0
         ELSE IF Len(parts) = 2 THEN ParseInt(parts[1]) * 60 + ParseInt(parts[2])
         ELSE IF Len(parts) = 3
              THEN ParseInt(parts[1]) * 3600 + ParseInt(parts[2]) * 60 + ParseInt(parts[3])
         ELSE 0

\* lines 233-243: the dict search_songs appends for one result
FormatResult(r) ==
    [videoId |-> r.videoId,
     title |-> r.title,
     artists |-> Join(r.artists, ", "),
     thumbnail |-> IF Len(r.thumbnails) > 0 THEN r.thumbnails[Len(r.thumbnails)] ELSE "",
     duration |-> r.duration,
     duration_seconds |-> DurationSeconds(r.duration)]

\* the dict of every entry of Catalog, by position
RECURSIVE FormatFrom(_)
FormatFrom(i) ==
    IF i > Len(Catalog) THEN <<>>
    ELSE <<FormatResult(Catalog[i])>> \o FormatFrom(i + 1)

Formatted == FormatFrom(1)

\* search_songs(query, limit): [] when ytm is None or the search fails;
\* results without a videoId are skipped
search_songs(ytm, query, limit) ==
    IF ytm = <<>> THEN <<>>
    ELSE IF ytm[1].fails THEN <<>>
    ELSE LET results == SelectSeq(YtmSearch(ytm[1], query, limit),
                                  LAMBDA i : Catalog[i].has_id)
         IN  [k \in 1..Len(results) |-> Formatted[results[k]]]

(***************************************************************************)
(* recommend/heuristics.py                                                 *)
(***************************************************************************)
\* the keys of ARTIST_SIMILARITY in dict order
ArtistKeys == <<"drake", "taylor swift", "weeknd", "bad bunny", "ed sheeran", "punjabi">>

ARTIST_SIMILARITY(key) ==
    CASE key = "drake" -> <<"kendrick lamar", "j. cole", "travis scott", "post malone">>
      [] key = "taylor swift" -> <<"olivia rodrigo", "sabrina carpenter", "lana del rey">>
      [] key = "weeknd" -> <<"bruno mars", "david guetta", "calvin harris">>
      [] key = "bad bunny" -> <<"j balvin", "ozuna", "anuel aa">>
      [] key = "ed sheeran" -> <<"james arthur", "passenger", "calum scott">>
      [] key = "punjabi" -> <<"diljit dosanjh", "ap dhillon", "shubh", "karan aujla">>

\* get_similar_artists: direct mapping, then the first key in dict order
\* that contains or is contained in the name, else []
get_similar_artists(artist) ==
    LET artist_lower == Lower(artist)
        fuzzy == {k \in 1..Len(ArtistKeys) :
                     \/ Contains(artist_lower, ArtistKeys[k])
                     \/ Contains(ArtistKeys[k], artist_lower)}
    IN  IF \E k \in 1..Len(ArtistKeys) : ArtistKeys[k] = artist_lower
        THEN ARTIST_SIMILARITY(artist_lower)
        ELSE IF fuzzy # {}
        THEN ARTIST_SIMILARITY(ArtistKeys[CHOOSE k \in fuzzy : \A j \in fuzzy : k <= j])
        ELSE <<>>

\* genre_terms.get(genre.lower(), genre)
GenreTerm(genre) ==
    LET g == Lower(genre) IN
    CASE g = "pop" -> "pop music"
      [] g = "rock" -> "rock music"
      [] g = "hip hop" -> "hip hop"
      [] g = "electronic" -> "electronic music"
      [] g = "punjabi" -> "punjabi music"
      [] g = "lofi" -> "lofi beats"
      [] g = "jazz" -> "jazz music"
      [] OTHER -> genre

get_genre_based_recommendations(ytm, genre, limit) ==
    search_songs(ytm, GenreTerm(genre), limit)

TimeSlot(hour) ==
    IF 6 <= hour /\ hour < 12 THEN "morning"
    ELSE IF 12 <= hour /\ hour < 18 THEN "afternoon"
    ELSE IF 18 <= hour /\ hour < 22 THEN "evening"
    ELSE "night"

TIME_GENRES(slot) ==
    CASE slot = "morning" -> <<"pop", "upbeat", "motivational">>
      [] slot = "afternoon" -> <<"rock", "hip hop", "electronic">>
      [] slot = "evening" -> <<"chill", "lofi", "r&b">>
      [] slot = "night" -> <<"jazz", "ambient", "classical">>

\* get_time_based_recommendations: the first two genres of the slot, limit // 2
\* asked of each, the whole cut to limit
get_time_based_recommendations(ytm, hour, limit) ==
    LET genres == Take(TIME_GENRES(TimeSlot(hour)), 2)
        recs(k) == get_genre_based_recommendations(ytm, genres[k], limit \div 2)
    IN  Take(recs(1) \o recs(2), limit)

\* calculate_skip_velocity, in thousandths: skips / (skips + plays) over the
\* last 10 entries; 0 for fewer than 3 entries or no skip and no play
calculate_skip_velocity(activity) ==
    IF Len(activity) < 3 THEN 0
    ELSE LET recent == LastN(activity, 10)
             skip_count == Cardinality({k \in 1..Len(recent) : recent[k].event_type = "skip"})
             play_count == Cardinality({k \in 1..Len(recent) : recent[k].event_type = "play"})
             total == skip_count + play_count
         IN  IF total = 0 THEN 0 ELSE (skip_count * 1000) \div total

(***************************************************************************)
(* recommend/engine.py                                                     *)
(***************************************************************************)
recommendation_limit == 20

\* current_track as the caller gives it: None, or a dict whose "artists" is
\* absent, a string, or (malformed) not a string
Truthy(opt) == opt # <<>> /\ Len(opt[1]) > 0

\* lines 98-100 raise when "artists" is present, truthy and has no split()
ExtractContextRaises(current_track) ==
    /\ current_track # <<>>
    /\ current_track[1].artists_kind = "list"

\* lines 88-120
_extract_context(current_track, activity, taste_profile, hour) ==
    [current_artist |->
        IF current_track # <<>> /\ current_track[1].artists_kind = "str"
           /\ Len(current_track[1].artists) > 0
        THEN <<Split(current_track[1].artists, ", ")[1]>>
        ELSE <<>>,
     recent_artists |-> {},
     genres |->
        IF taste_profile # <<>> THEN taste_profile[1].preferred_genres ELSE {},
     skip_velocity |->
        IF Len(activity) > 0 THEN calculate_skip_velocity(activity) ELSE 0,
     time_of_day |-> hour,
     mood |->
        IF taste_profile # <<>> /\ taste_profile[1].mood # <<>>
        THEN taste_profile[1].mood[1] ELSE "neutral"]

\* the tier a candidate came from is carried along for the claims; the
\* program's dicts do not hold it
Tagged(tracks, tier) ==
    [k \in 1..Len(tracks) |->
        [videoId |-> tracks[k].videoId, title |-> tracks[k].title,
         artists |-> tracks[k].artists, thumbnail |-> tracks[k].thumbnail,
         duration |-> tracks[k].duration,
         duration_seconds |-> tracks[k].duration_seconds, tier |-> tier]]

InSeq(x, seq) == \E k \in 1..Len(seq) : seq[k] = x

\* lines 131-133: append the tracks not yet in the list
RECURSIVE AppendNew(_, _)
AppendNew(tracks, new) ==
    IF Len(new) = 0 THEN tracks
    ELSE AppendNew(IF InSeq(new[1], tracks) THEN tracks ELSE Append(tracks, new[1]),
                   Tail(new))

\* lines 127-133: the first three similar artists, five tracks asked of each
RECURSIVE SimilarArtistTracks(_, _, _)
SimilarArtistTracks(ytm, artists, tracks) ==
    IF Len(artists) = 0 THEN tracks
    ELSE SimilarArtistTracks(ytm, Tail(artists),
            AppendNew(tracks, Tagged(search_songs(ytm, artists[1], 5), "similar")))

\* lines 136-139: the first two genres of the set, in its iteration order
RECURSIVE GenreTracks(_, _)
GenreTracks(ytm, genres) ==
    IF Len(genres) = 0 THEN <<>>
    ELSE Tagged(get_genre_based_recommendations(ytm, genres[1], 5), "genre")
         \o GenreTracks(ytm, Tail(genres))

\* lines 146-148
PopularTracks(ytm, tracks, limit) ==
    IF Len(tracks) < limit
    THEN Tagged(search_songs(ytm, "popular music", limit - Len(tracks)), "popular")
    ELSE <<>>

\* _generate_recommendations; genre_order is list(context["genres"])
_generate_recommendations(context, limit, ytm, genre_order) ==
    LET t1 == IF Truthy(context.current_artist)
              THEN SimilarArtistTracks(ytm,
                       Take(get_similar_artists(context.current_artist[1]), 3), <<>>)
              ELSE <<>>
        t2 == t1 \o GenreTracks(ytm, Take(genre_order, 2))
        t3 == t2 \o Tagged(get_time_based_recommendations(ytm, context.time_of_day, 5), "time")
        t4 == t3 \o PopularTracks(ytm, t3, limit)
    IN  Take(t4, limit * 2)

\* lines 157-158: every candidate starts from score 1.0 and no label
InitialScore(rank) == 1000
InitialLabel(rank) == <<>>

\* lines 161-167
ArtistMatches(track, context) ==
    /\ Truthy(context.current_artist)
    /\ Contains(track.artists, context.current_artist[1])

\* lines 178
PunjabiMatches(track) ==
    \/ Contains(Lower(track.title), "punjabi")
    \/ Contains(Lower(track.artists), "punjabi")

\* lines 184-187
PrefersShort(track, context) ==
    context.skip_velocity > 700 /\ track.duration_seconds < 180

\* score *= 1.5, score *= 1.2, score *= 1.3
ArtistBoost(score) == (score * 15) \div 10
PunjabiBoost(score) == (score * 12) \div 10
\* a short-track adjustment that lowers the score
ShortTrackPenalty(score) == (score * 7) \div 10
ShortTrackBoost(score) == (score * 13) \div 10

\* lines 157-187: the score of one candidate
TrackScore(track, context, rank) ==
    LET s0 == InitialScore(rank)
        s1 == IF ArtistMatches(track, context) THEN ArtistBoost(s0) ELSE s0
        s2 == IF PunjabiMatches(track) THEN PunjabiBoost(s1) ELSE s1
    IN  IF PrefersShort(track, context) THEN ShortTrackBoost(s2) ELSE s2

\* lines 158-180: the label of one candidate
TrackLabel(track, context, rank) ==
    LET l0 == InitialLabel(rank)
        l1 == IF ArtistMatches(track, context) THEN <<"More by this artist">>
              ELSE IF l0 = <<>> /\ Truthy(context.current_artist) THEN <<"Similar artist">>
              ELSE l0
        l2 == IF 6 <= context.time_of_day /\ context.time_of_day < 12
              THEN (IF l1 = <<>> THEN <<"Morning vibes">> ELSE l1)
              ELSE IF 18 <= context.time_of_day /\ context.time_of_day < 22
              THEN (IF l1 = <<>> THEN <<"Evening chill">> ELSE l1)
              ELSE l1
    IN  IF PunjabiMatches(track) /\ l2 = <<>> THEN <<"Punjabi vibes">> ELSE l2

\* lines 189-194: dict(track) with "score" and, when set, "label"
Scored(track, context, rank) ==
    [videoId |-> track.videoId, title |-> track.title, artists |-> track.artists,
     thumbnail |-> track.thumbnail, duration |-> track.duration,
     duration_seconds |-> track.duration_seconds, tier |-> track.tier,
     score |-> TrackScore(track, context, rank),
     label |-> TrackLabel(track, context, rank)]

\* lines 156-194: the loop that fills `ranked`, from candidate k on
RECURSIVE RankedFrom(_, _, _)
RankedFrom(tracks, context, k) ==
    IF k > Len(tracks) THEN <<>>
    ELSE <<Scored(tracks[k], context, k - 1)>> \o RankedFrom(tracks, context, k + 1)

\* the list `ranked` before it is sorted
RankedUnsorted(tracks, context) == RankedFrom(tracks, context, 1)

\* a sort that puts an element in front of the elements of its own score
RECURSIVE InsertByScoreUnstable(_, _)
InsertByScoreUnstable(sorted, x) ==
    IF Len(sorted) = 0 THEN <<x>>
    ELSE IF sorted[1].score > x.score
         THEN <<sorted[1]>> \o InsertByScoreUnstable(Tail(sorted), x)
         ELSE <<x>> \o sorted

\* list.sort(key=score, reverse=True) keeps equal keys in their order: each
\* element goes behind the elements whose score is at least its own
RECURSIVE InsertByScore(_, _)
InsertByScore(sorted, x) ==
    IF Len(sorted) = 0 THEN <<x>>
    ELSE IF sorted[1].score >= x.score
         THEN <<sorted[1]>> \o InsertByScore(Tail(sorted), x)
         ELSE <<x>> \o sorted

RECURSIVE SortByScore(_, _)
SortByScore(sorted, rest) ==
    IF Len(rest) = 0 THEN sorted
    ELSE SortByScore(InsertByScore(sorted, rest[1]), Tail(rest))

\* line 197: ranked.sort(key=lambda x: x.get("score", 0), reverse=True)
SortRanked(ranked) == SortByScore(<<>>, ranked)

\* _rank_and_label_tracks
_rank_and_label_tracks(tracks, context) == SortRanked(RankedUnsorted(tracks, context))

\* a response that forgets the cut
ResponseTracksUncut(ranked, limit) == ranked
\* lines 51-53: tracks=ranked_tracks[:limit]
ResponseTracks(ranked, limit) == Take(ranked, limit)

\* line 53: the labels of the returned tracks that have one
ResponseLabels(tracks) ==
    LET labelled == SelectSeq(tracks, LAMBDA t : t.label # <<>>)
    IN  [k \in 1..Len(labelled) |-> labelled[k].label[1]]

\* lines 61-66: the response of the except branch
EmptyResponse == [tracks |-> <<>>, labels |-> <<>>, context |-> <<>>, raised |-> FALSE]

\* values another client of the shared store may leave on a list: text
\* that is not JSON, and JSON that is not an object (the number 42)
NotJson == [raw |-> "not json"]
NotDict == [raw |-> "42"]

\* json.loads raises on text that is not JSON
json_loads_ok(entry) == entry # NotJson

\* json.loads: the dict of an activity summary, or the number
json_loads(entry) ==
    IF entry = NotDict THEN [number |-> 42]
    ELSE [video_id |-> entry.video_id, event_type |-> entry.event_type,
          timestamp |-> entry.timestamp]

\* the value has .get and supports `"video_id" in value`
IsDict(value) == "event_type" \in DOMAIN value

\* redis LRANGE key start end (inclusive indices, -1 is the last element)
lrange(list, start, end) ==
    SubSeq(list, start + 1,
           IF end < 0 THEN Len(list) + 1 + end ELSE Min(end + 1, Len(list)))

\* engine.py:76, [json.loads(act) for act in activities]
ParsedAll(activities) ==
    [k \in 1..Len(activities) |-> json_loads(activities[k])]

\* _get_user_recent_activity on the list as the store holds it: the whole
\* list parsed, [] when the store fails or one json.loads raises
ReadRecentActivity(list) ==
    IF redis_available
       /\ \A k \in 1..Len(list) : json_loads_ok(list[k])
    THEN ParsedAll(lrange(list, 0, -1))
    ELSE <<>>

_get_user_recent_activity(user_id) == ReadRecentActivity(recent_activity[user_id])

\* line 39: the store is read when a user is given and no activity is
ResolvedActivity(activity, user_id) ==
    IF user_id # None /\ Len(activity) = 0
    THEN _get_user_recent_activity(user_id)
    ELSE activity

\* lines 34-35
ResolvedLimit(limit) == IF limit = <<>> THEN recommendation_limit ELSE limit[1]

\* lines 51-56: the response of the try branch
Response(ranked_tracks, context, limit) ==
    [tracks |-> ResponseTracks(ranked_tracks, limit),
     labels |-> ResponseLabels(ResponseTracks(ranked_tracks, limit)),
     context |-> <<context>>,
     raised |-> FALSE]

(***************************************************************************)
(* The inputs of recommend explored.                                       *)
(***************************************************************************)
MaxLimit == 2

CurrentTracks ==
    {<<>>,
     <<[artists_kind |-> "absent", artists |-> ""]>>,
     <<[artists_kind |-> "str", artists |-> "Drake, Future"]>>,
     <<[artists_kind |-> "list", artists |-> ""]>>}

Event(type) == [video_id |-> "v1", event_type |-> type, timestamp |-> 0]

ActivityArgs ==
    {<<>>,
     <<Event("skip"), Event("skip"), Event("skip")>>,
     <<Event("play"), Event("skip"), Event("skip")>>}

TasteProfiles ==
    {<<>>,
     <<[preferred_genres |-> {"Punjabi", "lofi"}, mood |-> <<"chill">>]>>}

Limits == {<<>>} \cup {<<n>> : n \in 0..MaxLimit}

\* the first hour of each time slot
Hours == {6, 12, 18, 22}

\* the orders in which a Python set may be iterated
Orderings(S) ==
    {f \in [1..Cardinality(S) -> S] : \A i, j \in 1..Cardinality(S) : f[i] = f[j] => i = j}

GenresOf(taste_profile) ==
    IF taste_profile = <<>> THEN {} ELSE taste_profile[1].preferred_genres

\* get_contextual_recommendations. Its only await is the read of the
\* activity list, so the call is one step; each local is bound once, in the
\* order of the statements of the try block.
Recommend(current_track, activity, user_id, taste_profile, limit, hour, ytm, genre_order) ==
    /\ rec_pc = "idle"
    /\ rec_request' = [current_track |-> current_track, activity |-> activity,
                       user_id |-> user_id, taste_profile |-> taste_profile,
                       limit |-> ResolvedLimit(limit)]
    /\ IF ExtractContextRaises(current_track)
       THEN /\ rec_tracks' = <<>>
            /\ rec_ranked' = <<>>
            /\ rec_response' = EmptyResponse
       ELSE \E context \in {_extract_context(current_track,
                                 ResolvedActivity(activity, user_id), taste_profile, hour)} :
            \E tracks \in {_generate_recommendations(context, ResolvedLimit(limit),
                                                      ytm, genre_order)} :
            \E ranked \in {RankedUnsorted(tracks, context)} :
            \E ranked_tracks \in {SortRanked(ranked)} :
               /\ rec_tracks' = tracks
               /\ rec_ranked' = ranked
               /\ rec_response' = Response(ranked_tracks, context, ResolvedLimit(limit))
    /\ rec_pc' = "done"
    /\ UNCHANGED <<redis_available, store_vars, issued, clock, proc_vars, gen_vars>>

\* the caller has taken the response
RecommendDone ==
    /\ rec_pc = "done"
    /\ rec_pc' = "idle"
    /\ rec_request' = NoRequest
    /\ rec_tracks' = <<>>
    /\ rec_ranked' = <<>>
    /\ rec_response' = NoResponse
    /\ UNCHANGED <<redis_available, store_vars, issued, clock, proc_vars, gen_vars>>

NextRec ==
    \/ RedisDown
    \/ RedisUp
    \/ \E current_track \in CurrentTracks, activity \in ActivityArgs,
          user_id \in UserIds \cup {None}, taste_profile \in TasteProfiles,
          limit \in Limits, hour \in Hours, ytm \in YtmClients :
          \E genre_order \in Orderings(GenresOf(taste_profile)) :
             Recommend(current_track, activity, user_id, taste_profile, limit,
                       hour, ytm, genre_order)
    \/ RecommendDone

SpecRec == Init /\ [][NextRec]_vars

\* the length of the activity lists given to the engine below: one entry
\* more than the ten that heuristics.py:97 and engine.py:107 look at
LongLen == 11

\* the activity lists of LongLen plays and skips as the store holds them,
\* most recent first
LongActivities ==
    {[k \in 1..LongLen |->
         [video_id |-> "v1", event_type |-> types[k], timestamp |-> LongLen - k + 1]] :
       types \in [1..LongLen -> {"play", "skip"}]}

\* recommend calls on long activity lists, as manifest.py:113-118 makes them
NextWindow ==
    \/ \E activity \in LongActivities, user_id \in UserIds, hour \in {6, 22} :
          Recommend(<<>>, activity, user_id, <<>>, <<>>, hour, <<>>, <<>>)
    \/ RecommendDone

SpecWindow == Init /\ [][NextWindow]_vars

(***************************************************************************)
(* cache/manifest.py                                                       *)
(***************************************************************************)
must_cache_size == 10
likely_next_size == 20
cache_prediction_hours == 24

\* <<event_type, video_id, user_id>> of the record_event calls interleaved
\* with generate_manifest
ManifestCallArgs == {<<"play", "v1", "u1">>, <<"skip", "v1", "u1">>, <<"play", "v2", "u1">>}

\* <<ytm, hour, utc_offset>> of the generate_manifest calls explored: the
\* global ytm during the call, the UTC hour of the call and the offset of the
\* host's local time from UTC in seconds
ManifestCalls ==
    {<< <<>>, 12, 0 >>,
     << <<[library |-> AlwaysServed, honors_limit |-> TRUE, fails |-> TRUE]>>, 22, -28800 >>,
     << <<[library |-> HitEntries, honors_limit |-> FALSE, fails |-> FALSE]>>, 22, -28800 >>,
     << <<[library |-> 1..Len(Catalog), honors_limit |-> TRUE, fails |-> FALSE]>>, 12, 0 >>}

\* a count that takes every event with a video id, skips too
CountsAnyEvent(entry) ==
    /\ json_loads_ok(entry)
    /\ "video_id" \in DOMAIN json_loads(entry)
    /\ json_loads(entry).video_id # None

\* lines 73-75: the entry parses, has a video id and is a play; a raising
\* json.loads or .get is swallowed by the inner except
CountsAsPlay(entry) ==
    /\ json_loads_ok(entry)
    /\ IsDict(json_loads(entry))
    /\ json_loads(entry).video_id # None
    /\ json_loads(entry).event_type = "play"

\* line 76: video_counts[video_id] = video_counts.get(video_id, 0) + 1; the
\* dict keeps its keys in the order they were first set
Bump(counts, video_id) ==
    IF \E k \in 1..Len(counts) : counts[k].video_id = video_id
    THEN [k \in 1..Len(counts) |->
             IF counts[k].video_id = video_id
             THEN [counts[k] EXCEPT !.count = @ + 1] ELSE counts[k]]
    ELSE Append(counts, [video_id |-> video_id, count |-> 1])

\* lines 70-78
RECURSIVE VideoCounts(_, _)
VideoCounts(activities, counts) ==
    IF Len(activities) = 0 THEN counts
    ELSE VideoCounts(Tail(activities),
                     IF CountsAsPlay(activities[1])
                     THEN Bump(counts, json_loads(activities[1]).video_id)
                     ELSE counts)

\* line 81: sorted(..., key=count, reverse=True), stable
RECURSIVE InsertByCount(_, _)
InsertByCount(sorted, x) ==
    IF Len(sorted) = 0 THEN <<x>>
    ELSE IF sorted[1].count >= x.count
         THEN <<sorted[1]>> \o InsertByCount(Tail(sorted), x)
         ELSE <<x>> \o sorted

RECURSIVE SortByCount(_, _)
SortByCount(sorted, rest) ==
    IF Len(rest) = 0 THEN sorted
    ELSE SortByCount(InsertByCount(sorted, rest[1]), Tail(rest))

\* a count that gives up on the whole batch when one entry is malformed
PersonalTracksAllOrNothing(activities) ==
    IF \E k \in 1..Len(activities) :
          ~json_loads_ok(activities[k]) \/ ~IsDict(json_loads(activities[k]))
    THEN <<>>
    ELSE LET top == Take(SortByCount(<<>>, VideoCounts(activities, <<>>)), 5)
         IN  [k \in 1..Len(top) |-> [videoId |-> top[k].video_id, reason |-> top[k].count]]

\* lines 70-84: the five most played videos; reason is the count of
\* "Played {count} times"
PersonalTracks(activities) ==
    LET top == Take(SortByCount(<<>>, VideoCounts(activities, <<>>)), 5)
    IN  [k \in 1..Len(top) |-> [videoId |-> top[k].video_id, reason |-> top[k].count]]

\* "{genre} hits 2024" for popular_genres[:2]
HitsQueries == <<"pop hits 2024", "hip hop hits 2024">>

RECURSIVE GenericHits(_, _, _)
GenericHits(ytm, queries, tracks) ==
    IF Len(queries) = 0 THEN tracks
    ELSE GenericHits(ytm, Tail(queries),
                     AppendNew(tracks, search_songs(ytm, queries[1], 3)))

\* _get_generic_must_cache
_get_generic_must_cache(ytm) == Take(GenericHits(ytm, HitsQueries, <<>>), must_cache_size)

\* _get_generic_likely_next
_get_generic_likely_next(ytm) == search_songs(ytm, "trending music", likely_next_size)

\* a padding that puts the generic tracks in the place of the user's own
PaddedReplacing(tracks, ytm) ==
    Take(IF Len(tracks) < 3 THEN Take(_get_generic_must_cache(ytm), 3) ELSE tracks,
         must_cache_size)

\* lines 89-94: the padding of _get_personalized_must_cache
PaddedMustCache(tracks, ytm) ==
    Take(IF Len(tracks) < 3
         THEN tracks \o Take(_get_generic_must_cache(ytm), 3)
         ELSE tracks,
         must_cache_size)

\* lines 105-109: the first play met walking reversed(recent_activity);
\* .get raises on an entry that is not a dict
RECURSIVE LastPlayFrom(_, _)
LastPlayFrom(activity, k) ==
    IF k = 0 THEN [raised |-> FALSE, last_play |-> <<>>]
    ELSE IF ~IsDict(activity[k]) THEN [raised |-> TRUE, last_play |-> <<>>]
    ELSE IF activity[k].event_type = "play"
         THEN [raised |-> FALSE, last_play |-> <<[video_id |-> activity[k].video_id]>>]
    ELSE LastPlayFrom(activity, k - 1)

LastPlay(activity) == LastPlayFrom(activity, Len(activity))

\* engine.py:103-111: with activity given, calculate_skip_velocity calls
\* event.get and the loop evaluates `"video_id" in activity` on each of the
\* last 10 entries; both raise on a number
ActivityRaises(activity) ==
    \E k \in 1..Len(LastN(activity, 10)) : ~IsDict(LastN(activity, 10)[k])

\* get_contextual_recommendations(current_track={"video_id": ...},
\* recent_activity=activity, user_id, limit) as manifest.py:113 calls it: the
\* activity is given, so the store is not read
EngineResponse(activity, limit, hour, ytm) ==
    IF ActivityRaises(activity) THEN EmptyResponse
    ELSE LET current_track == <<[artists_kind |-> "absent", artists |-> ""]>>
             context == _extract_context(current_track, activity, <<>>, hour)
             tracks == _generate_recommendations(context, limit, ytm, <<>>)
         IN  Response(_rank_and_label_tracks(tracks, context), context, limit)

\* naive datetime.timestamp() reads the datetime as host local time:
\* (utcnow() + timedelta(hours)).timestamp()
ExpiresAt(now, hours, utc_offset) == now + hours * 3600 - utc_offset

\* lines 35-46
Manifest(must_cache, likely_next, now, utc_offset) ==
    [must_cache |-> Take(must_cache, must_cache_size),
     likely_next |-> Take(likely_next, likely_next_size),
     expires_at |-> ExpiresAt(now, cache_prediction_hours, utc_offset),
     raised |-> FALSE]

\* lines 48-55: the manifest of the except branch. Every helper awaited in
\* the try block swallows its own exceptions, so no call takes this branch.
EmptyManifest(now, utc_offset) ==
    [must_cache |-> <<>>, likely_next |-> <<>>,
     expires_at |-> ExpiresAt(now, 1, utc_offset), raised |-> FALSE]

\* generate_manifest(None): no command is sent to the store
GenAnonymous(ytm, utc_offset) ==
    /\ gen_pc = "idle"
    /\ \E must_cache \in {_get_generic_must_cache(ytm)} :
       \E likely_next \in {_get_generic_likely_next(ytm)} :
          /\ gen_frame' = [NoGenFrame EXCEPT !.ytm = ytm,
                                             !.must_cache = must_cache,
                                             !.likely_next = likely_next,
                                             !.now = clock,
                                             !.utc_offset = utc_offset]
          /\ gen_response' = Manifest(must_cache, likely_next, clock, utc_offset)
    /\ gen_pc' = "done"
    /\ UNCHANGED <<redis_available, store_vars, issued, clock, proc_vars, rec_vars>>

\* a read of the list that trims it as well
GenMustCacheTrimming(user_id) ==
    /\ gen_pc = "idle"
    /\ \E activities \in {IF redis_available
                          THEN lrange(recent_activity[user_id], 0, recent_activity_window - 1)
                          ELSE <<>>} :
          gen_frame' = [NoGenFrame EXCEPT !.user_id = user_id,
                                          !.list_at_read = recent_activity[user_id],
                                          !.activities = activities,
                                          !.read_ok = redis_available,
                                          !.personal = PersonalTracks(activities)]
    /\ gen_pc' = "likely_next"
    /\ recent_activity' = [recent_activity EXCEPT ![user_id] = ltrim(@, 0, 0)]
    /\ UNCHANGED <<redis_available, session_store, user_sessions, event_keys,
                   activity_ttl, issued, clock, proc_vars, rec_vars, gen_response>>

\* generate_manifest(user_id) up to the await of engine.py:75: the lrange of
\* manifest.py:67, whose failure leaves tracks empty, and lines 70-84. The
\* searches of the padding (lines 90-92) are answered by the catalog of the
\* call, which is drawn where the call ends.
GenMustCache(user_id) ==
    /\ gen_pc = "idle"
    /\ \E activities \in {IF redis_available
                          THEN lrange(recent_activity[user_id], 0, recent_activity_window - 1)
                          ELSE <<>>} :
          gen_frame' = [NoGenFrame EXCEPT !.user_id = user_id,
                                          !.list_at_read = recent_activity[user_id],
                                          !.activities = activities,
                                          !.read_ok = redis_available,
                                          !.personal = PersonalTracks(activities)]
    /\ gen_pc' = "likely_next"
    /\ UNCHANGED <<redis_available, store_vars, issued, clock, proc_vars, rec_vars,
                   gen_response>>

\* the rest of generate_manifest(user_id): the padding of must_cache,
\* _get_likely_next_tracks from the answer of the lrange of engine.py:75 on,
\* then lines 35-46
GenLikelyNext(ytm, hour, utc_offset) ==
    /\ gen_pc = "likely_next"
    /\ \E must_cache \in {PaddedMustCache(gen_frame.personal, ytm)} :
       \E activity \in {_get_user_recent_activity(gen_frame.user_id)} :
       \E found \in {LastPlay(activity)} :
       \E called \in {~found.raised /\ found.last_play # <<>>} :
       \E response \in {IF called
                        THEN EngineResponse(activity, likely_next_size, hour, ytm)
                        ELSE NoResponse} :
       \E likely_next \in {IF called THEN response.tracks
                           ELSE _get_generic_likely_next(ytm)} :
          /\ gen_frame' = [gen_frame EXCEPT
                              !.ytm = ytm,
                              !.must_cache = must_cache,
                              !.engine_read_ok = redis_available,
                              !.recent_activity = activity,
                              !.last_play = found.last_play,
                              !.engine_called = called,
                              !.engine_response = response,
                              !.likely_next = likely_next,
                              !.now = clock,
                              !.hour = hour,
                              !.utc_offset = utc_offset]
          /\ gen_response' = Manifest(must_cache, likely_next, clock, utc_offset)
    /\ gen_pc' = "done"
    /\ UNCHANGED <<redis_available, store_vars, issued, clock, proc_vars, rec_vars>>

\* the caller has taken the manifest
GenDone ==
    /\ gen_pc = "done"
    /\ gen_pc' = "idle"
    /\ gen_frame' = NoGenFrame
    /\ gen_response' = NoManifest
    /\ UNCHANGED <<redis_available, store_vars, issued, clock, proc_vars, rec_vars>>

\* another client of the shared store leaves a value on the user's list; at
\* most one such value is on a list at a time
ForeignPush(user_id, value) ==
    /\ redis_available
    /\ Len(recent_activity[user_id]) <= recent_activity_window
    /\ \A k \in 1..Len(recent_activity[user_id]) :
          recent_activity[user_id][k] \notin {NotJson, NotDict}
    /\ recent_activity' = [recent_activity EXCEPT ![user_id] = lpush(@, value)]
    /\ UNCHANGED <<redis_available, session_store, user_sessions, event_keys,
                   activity_ttl, issued, clock, proc_vars, rec_vars, gen_vars>>

\* a coroutine that returns hands its value to the awaiting caller without
\* yielding to the event loop: nothing else runs until the caller has it
ManifestTaken == gen_pc # "done"

\* record_event calls for a session that was not started and
\* generate_manifest calls, interleaved at every await
NextManifest ==
    \/ ManifestTaken /\ RedisDown
    \/ ManifestTaken /\ RedisUp
    \/ ManifestTaken /\ \E p \in SeqProcs, s \in SessionIds, a \in ManifestCallArgs :
                            RecordEventCall(p, s, a[1], a[2], a[3])
    \/ ManifestTaken /\ \E p \in SeqProcs : RecordSetEvent(p)
    \/ ManifestTaken /\ \E p \in SeqProcs : RecordGetSession(p)
    \/ ManifestTaken /\ \E p \in SeqProcs : RecordLPush(p)
    \/ ManifestTaken /\ \E p \in SeqProcs : RecordLTrim(p)
    \/ ManifestTaken /\ \E p \in SeqProcs : RecordExpire(p)
    \/ ManifestTaken /\ \E p \in SeqProcs : RecordReturn(p)
    \/ ManifestTaken /\ \E p \in SeqProcs : Done(p)
    \/ \E c \in ManifestCalls : GenAnonymous(c[1], c[3])
    \/ \E u \in UserIds : GenMustCache(u)
    \/ \E c \in ManifestCalls : GenLikelyNext(c[1], c[2], c[3])
    \/ GenDone

SpecManifest == Init /\ [][NextManifest]_vars

\* record_event and generate_manifest on a store that stays reachable and
\* that other clients write to as well
NextShared ==
    \/ ManifestTaken /\ \E p \in SeqProcs, s \in SessionIds, a \in ManifestCallArgs :
                            RecordEventCall(p, s, a[1], a[2], a[3])
    \/ ManifestTaken /\ \E p \in SeqProcs : RecordSetEvent(p)
    \/ ManifestTaken /\ \E p \in SeqProcs : RecordGetSession(p)
    \/ ManifestTaken /\ \E p \in SeqProcs : RecordLPush(p)
    \/ ManifestTaken /\ \E p \in SeqProcs : RecordLTrim(p)
    \/ ManifestTaken /\ \E p \in SeqProcs : RecordExpire(p)
    \/ ManifestTaken /\ \E p \in SeqProcs : RecordReturn(p)
    \/ ManifestTaken /\ \E p \in SeqProcs : Done(p)
    \/ ManifestTaken /\ \E u \in UserIds, value \in {NotJson, NotDict} :
                            ForeignPush(u, value)
    \/ \E c \in ManifestCalls : GenAnonymous(c[1], c[3])
    \/ \E u \in UserIds : GenMustCache(u)
    \/ \E c \in ManifestCalls : GenLikelyNext(c[1], c[2], c[3])
    \/ GenDone

SpecShared == Init /\ [][NextShared]_vars

\* <<current_track, user_id, ytm, hour>> of the recommend calls interleaved
\* with record_event and generate_manifest: for a user, anonymous on a
\* failing catalog, and failing at engine.py:98-100
ReadOnlyCalls ==
    {<< <<>>, "u1", <<>>, 12 >>,
     << <<>>, None,
        <<[library |-> AlwaysServed, honors_limit |-> TRUE, fails |-> TRUE]>>, 22 >>,
     << <<[artists_kind |-> "list", artists |-> ""]>>, "u1", <<>>, 12 >>}

\* a recommend call that has returned is taken by its caller before
\* anything else runs
RecommendTaken == rec_pc # "done"

\* record_event, generate_manifest and recommend on one store
NextReadOnly ==
    \/ RecommendTaken /\ NextManifest
    \/ ManifestTaken /\ \E r \in ReadOnlyCalls :
                            Recommend(r[1], <<>>, r[2], <<>>, <<>>, r[4], r[3], <<>>)
    \/ RecommendDone

SpecReadOnly == Init /\ [][NextReadOnly]_vars

(***************************************************************************)
(* Claims about the session store.                                         *)
(***************************************************************************)
Quiescent == \A p \in Procs : pc[p] \in {"idle", "done"}

\* C1: a user's recent-activity list never holds more than
\* recent_activity_window entries. Stated where the claim is weakest, in the
\* states where every record_event call has returned.
C1_ActivityWithinCapacity ==
    Quiescent => \A u \in UserIds : Len(recent_activity[u]) <= recent_activity_window

\* C2: record_event always reports success to its caller and never raises.
C2_RecordEventReportsSuccess ==
    \A p \in Procs :
        ret[p].op = "record_event" => ret[p].value = <<TRUE>> /\ ~ret[p].raised

\* C3: start_session always returns the session id it generated and never
\* raises, whether or not its writes reached the store.
C3_StartSessionReturnsId ==
    \A p \in Procs :
        ret[p].op = "start_session" =>
            /\ ~ret[p].raised
            /\ Len(ret[p].value) = 1
            /\ ret[p].value[1] \in issued

\* start_session has returned an id although neither the session record nor
\* the user link was written
C3_Witness ==
    \E p \in Procs :
        /\ ret[p].op = "start_session"
        /\ Len(ret[p].value) = 1
        /\ session_store[ret[p].value[1]] = <<>>
        /\ \A u \in UserIds : user_sessions[u] = <<>>

(***************************************************************************)
(* Claims about the recommendation engine, checked under SpecRec.          *)
(***************************************************************************)
Returned == rec_response.tracks

WithScore(tracks, score) == SelectSeq(tracks, LAMBDA t : t.score = score)

IsPrefix(a, b) == Len(a) <= Len(b) /\ SubSeq(b, 1, Len(a)) = a

Descending(tracks) ==
    \A i, j \in 1..Len(tracks) : i < j => tracks[i].score >= tracks[j].score

\* C4: the returned tracks are in descending order of score, and the returned
\* tracks of one score are in the order they had in the list before the sort
\* (they are the first of that score in `ranked`, in the same order).
C4_StableDescendingSort ==
    rec_pc = "done" =>
        /\ Descending(Returned)
        /\ \A k \in 1..Len(Returned) :
              IsPrefix(WithScore(Returned, Returned[k].score),
                       WithScore(rec_ranked, Returned[k].score))

\* the sort moved a track forward and the output holds two different tracks
\* of one score
C4_Witness ==
    /\ rec_pc = "done"
    /\ ~Descending(rec_ranked)
    /\ \E i, j \in 1..Len(Returned) :
          i < j /\ Returned[i].score = Returned[j].score /\ Returned[i] # Returned[j]

\* C5: for every limit >= 0, with the store unreachable or not and the
\* catalog absent, failing, empty or not, recommend does not raise and
\* returns at most `limit` tracks.
C5_NeverRaisesAtMostLimit ==
    rec_pc = "done" =>
        /\ ~rec_response.raised
        /\ Len(Returned) <= rec_request.limit

\* the store is down for a call that would read it, and more candidates
\* than the limit were ranked: the response was cut to the limit
C5_Witness ==
    /\ rec_pc = "done"
    /\ ~redis_available
    /\ rec_request.user_id # None
    /\ Len(rec_request.activity) = 0
    /\ rec_request.limit > 0
    /\ Len(rec_ranked) > rec_request.limit
    /\ Len(Returned) = rec_request.limit

\* the base score and label the claim gives rank r
RankBaseScore(rank) == 1000 - 50 * rank

RankBaseLabel(rank) ==
    IF rank = 0 THEN "Top Pick"
    ELSE IF rank <= 2 THEN "Trending"
    ELSE "Recommended"

\* C6: the candidate at rank r starts from base score 1.0 - 0.05 * r and the
\* label of its rank; with no seed track and no user the first returned
\* track is labelled "Top Pick".
C6_RankBaseScoreAndLabel ==
    rec_pc = "done" =>
        /\ \A k \in 1..Len(rec_tracks) :
              /\ InitialScore(k - 1) = RankBaseScore(k - 1)
              /\ InitialLabel(k - 1) = <<RankBaseLabel(k - 1)>>
        /\ (rec_request.current_track = <<>> /\ rec_request.user_id = None
            /\ Len(Returned) > 0)
              => Returned[1].label = <<"Top Pick">>

\* C7: the final score of every ranked track is at least the score the
\* candidate started from.
C7_FinalScoreAtLeastBase ==
    rec_pc = "done" =>
        \A k \in 1..Len(rec_ranked) : rec_ranked[k].score >= InitialScore(k - 1)

\* a returned track took the short-track adjustment and another one none
C7_Witness ==
    /\ rec_pc = "done"
    /\ rec_response.context # <<>>
    /\ \E k \in 1..Len(rec_ranked) :
          /\ PrefersShort(rec_ranked[k], rec_response.context[1])
          /\ rec_ranked[k].score > InitialScore(k - 1)
    /\ \E k \in 1..Len(rec_ranked) : rec_ranked[k].score = InitialScore(k - 1)

\* C8: with a current track given and current artist A, every returned
\* track whose artist string contains A, letter case ignored, scores at
\* least its base score + 0.3.
C8_CaseInsensitiveArtistBoost ==
    (rec_pc = "done" /\ rec_response.context # <<>>
     /\ Truthy(rec_response.context[1].current_artist)) =>
        \A k \in 1..Len(rec_ranked) :
            (InSeq(rec_ranked[k], Returned)
             /\ Contains(Lower(rec_ranked[k].artists),
                         Lower(rec_response.context[1].current_artist[1])))
                => rec_ranked[k].score >= InitialScore(k - 1) + 300

VideoIdsOf(tracks) == {tracks[k].videoId : k \in 1..Len(tracks)}

\* C9: no two returned tracks have the same videoId.
C9_NoDuplicateVideoIds ==
    rec_pc = "done" => Cardinality(VideoIdsOf(Returned)) = Len(Returned)

TiersOf(tracks) == {tracks[k].tier : k \in 1..Len(tracks)}

\* C10: the candidates of one call all come from one tier, and so do the
\* returned tracks.
C10_SingleTier ==
    rec_pc = "done" =>
        /\ Cardinality(TiersOf(rec_tracks)) <= 1
        /\ Cardinality(TiersOf(Returned)) <= 1

\* the keys of the context dict of the response
ContextKeys(response) ==
    IF response.context = <<>> THEN {} ELSE DOMAIN response.context[1]

\* C11: when every candidate tier fails or yields nothing, recommend returns
\* an empty track list whose context reports intent "neutral" and source
\* "error", and nothing is raised.
C11_TotalFailureReportsNeutralError ==
    (rec_pc = "done" /\ rec_tracks = <<>>) =>
        /\ ~rec_response.raised
        /\ Returned = <<>>
        /\ "intent" \in ContextKeys(rec_response)
        /\ rec_response.context[1].intent = "neutral"
        /\ "source" \in ContextKeys(rec_response)
        /\ rec_response.context[1].source = "error"

(***************************************************************************)
(* Claims about the cache manifest, checked under SpecManifest and, where  *)
(* other clients of the store matter, under SpecShared.                    *)
(***************************************************************************)
GenReturned == gen_pc = "done"

KnownUser == gen_frame.user_id # None

\* C12: expires_at is later than the instant of generation and at most 24
\* hours after it: that instant + 24 h, or + 1 h on the failure path.
C12_ExpiryWithinDay ==
    GenReturned =>
        /\ gen_response.expires_at > gen_frame.now
        /\ gen_response.expires_at <= gen_frame.now + 24 * 3600
        /\ gen_response.expires_at \in {gen_frame.now + cache_prediction_hours * 3600,
                                        gen_frame.now + 3600}

\* generate failed altogether: the store did not answer and the manifest
\* holds no track
TotalFailure ==
    /\ GenReturned
    /\ ~redis_available
    /\ KnownUser => (~gen_frame.read_ok /\ ~gen_frame.engine_read_ok)
    /\ gen_response.must_cache = <<>>
    /\ gen_response.likely_next = <<>>

\* C13: on total failure the manifest expires 1 hour after generation, not
\* 24 hours after it.
C13_TotalFailureShortExpiry ==
    TotalFailure => gen_response.expires_at = gen_frame.now + 3600

\* the video ids of the plays among list entries
PlayedIds(entries) ==
    {entries[k].video_id : k \in {j \in 1..Len(entries) :
                                    "event_type" \in DOMAIN entries[j]
                                    /\ entries[j].event_type = "play"}}

\* C14: once record_event has pushed the play of a track on the user's list
\* and generate has read that list from a reachable store, must_cache holds
\* the track, padded or not (at most 3 tracks played).
C14_PlayedTrackInMustCache ==
    (GenReturned /\ KnownUser /\ gen_frame.read_ok
     /\ Cardinality(PlayedIds(gen_frame.activities)) <= 3) =>
        PlayedIds(gen_frame.activities) \subseteq VideoIdsOf(gen_response.must_cache)

\* record_event has returned, its play of v1 heads the list generate read,
\* and must_cache holds v1 in front of padded generic tracks
C14_Witness ==
    /\ GenReturned
    /\ KnownUser
    /\ gen_frame.read_ok
    /\ \A p \in Procs : pc[p] \in {"idle", "done"}
    /\ gen_frame.list_at_read # <<>>
    /\ gen_frame.list_at_read[1].video_id = "v1"
    /\ gen_frame.list_at_read[1].event_type = "play"
    /\ Len(gen_frame.personal) < 3
    /\ Len(gen_response.must_cache) > Len(gen_frame.personal)
    /\ gen_response.must_cache[1].videoId = "v1"

\* the popular tracks the catalog has for the padding
PopularSupply(ytm) ==
    IF ytm = <<>> THEN 0
    ELSE IF ytm[1].fails THEN 0
    ELSE Cardinality({Catalog[i].videoId : i \in {j \in ytm[1].library :
            Catalog[j].has_id
            /\ \E q \in 1..Len(HitsQueries) : HitsQueries[q] \in Catalog[j].matches}})

\* C15: for a known user with fewer than 3 qualifying tracks, must_cache is
\* padded up to must_cache_size when the catalog has that many popular
\* tracks, and no video id is in it twice.
C15_PaddedToTargetSize ==
    (GenReturned /\ KnownUser /\ Len(gen_frame.personal) < 3
     /\ PopularSupply(gen_frame.ytm) >= must_cache_size - Len(gen_frame.personal)) =>
        /\ Len(gen_response.must_cache) = must_cache_size
        /\ Cardinality(VideoIdsOf(gen_response.must_cache)) = Len(gen_response.must_cache)

\* the play events of a video among list entries
PlayCount(entries, video_id) ==
    Cardinality({k \in 1..Len(entries) :
                    /\ "event_type" \in DOMAIN entries[k]
                    /\ entries[k].event_type = "play"
                    /\ entries[k].video_id = video_id})

\* the newest entries of the list generate read, up to the window
WindowRead == Take(gen_frame.list_at_read, recent_activity_window)

C17_FailedPersonalizationIsGeneric ==
    (GenReturned /\ KnownUser /\ ~gen_frame.read_ok /\ ~gen_frame.engine_read_ok) =>
        /\ gen_response.must_cache =
              Take(_get_generic_must_cache(gen_frame.ytm), must_cache_size)
        /\ gen_response.likely_next =
              Take(_get_generic_likely_next(gen_frame.ytm), likely_next_size)

\* the positions of the play events of an activity list, head first
PlayPositions(activity) ==
    {k \in 1..Len(activity) :
        "event_type" \in DOMAIN activity[k] /\ activity[k].event_type = "play"}

\* C18: the seed given to the engine is the play event nearest the head of
\* the activity list, the user's most recent play.
C18_SeedIsMostRecentPlay ==
    (GenReturned /\ KnownUser /\ PlayPositions(gen_frame.recent_activity) # {}) =>
        LET newest == CHOOSE k \in PlayPositions(gen_frame.recent_activity) :
                         \A j \in PlayPositions(gen_frame.recent_activity) : k <= j
        IN  gen_frame.last_play =
               <<[video_id |-> gen_frame.recent_activity[newest].video_id]>>

\* the engine was called and answered with its failure response
EngineFailed ==
    /\ gen_frame.engine_called
    /\ gen_frame.engine_response.tracks = <<>>
    /\ gen_frame.engine_response.context = <<>>

\* C19: for a known user with no activity, or when the engine fails,
\* likely_next is the generic list.
C19_LikelyNextFallsBack ==
    (GenReturned /\ KnownUser
     /\ (gen_frame.recent_activity = <<>> \/ EngineFailed)) =>
        gen_response.likely_next =
           Take(_get_generic_likely_next(gen_frame.ytm), likely_next_size)

\* C20: the activity the engine reads is every well-formed entry of the
\* list: an unparseable entry is skipped alone.
C20_MalformedEntrySkippedAlone ==
    (GenReturned /\ KnownUser /\ gen_frame.engine_read_ok) =>
        gen_frame.recent_activity =
           ParsedAll(SelectSeq(recent_activity[gen_frame.user_id], json_loads_ok))

\* the entries of a batch that are not a summary written by record_event
Malformed(entries) == {k \in 1..Len(entries) : entries[k] \in {NotJson, NotDict}}

\* C21: malformed entries in the batch the manifest generator counts are
\* skipped one by one: every track played in a well-formed entry is counted
\* with the number of its well-formed play entries, as without the malformed
\* ones.
C21_MalformedEntriesSkippedInCount ==
    (gen_pc \in {"likely_next", "done"} /\ KnownUser /\ gen_frame.read_ok) =>
        /\ \A v \in PlayedIds(gen_frame.activities) :
              \E k \in 1..Len(gen_frame.personal) :
                 /\ gen_frame.personal[k].videoId = v
                 /\ gen_frame.personal[k].reason = PlayCount(gen_frame.activities, v)
        /\ gen_frame.personal =
              PersonalTracks(SelectSeq(gen_frame.activities,
                                       LAMBDA entry : entry \notin {NotJson, NotDict}))

\* the batch read holds a malformed entry and a play, and the play is counted
C21_Witness ==
    /\ GenReturned
    /\ KnownUser
    /\ gen_frame.read_ok
    /\ Malformed(gen_frame.activities) # {}
    /\ PlayedIds(gen_frame.activities) # {}
    /\ Len(gen_frame.personal) = Cardinality(PlayedIds(gen_frame.activities))
    /\ gen_response.must_cache[1] = gen_frame.personal[1]

(***************************************************************************)
(* Further claims about the session store.                                 *)
(***************************************************************************)
\* the event of the call was stored and carries a track id and a user id
TrackBearing(f) == f.success /\ f.video_id # None /\ f.user_id # None

\* the steps of record_event between the event write and the activity update
SessionUpdate == {"re_get_session", "re_set_session"}

\* C22: for every stored event with a track id and a user id, of any event
\* type, record_event goes on to push the summary {track id, event type,
\* timestamp}, and the push puts it at the head of the user's list.
C22_EveryTrackEventPushed ==
    [][\A p \in Procs :
          /\ (pc[p] \in SessionUpdate /\ pc'[p] \notin SessionUpdate
               /\ TrackBearing(frame[p])) => pc'[p] = "re_lpush"
          /\ (pc[p] = "re_lpush" /\ pc'[p] = "re_ltrim") =>
                recent_activity'[frame[p].user_id] =
                   <<[video_id |-> frame[p].video_id,
                      event_type |-> frame[p].event_type,
                      timestamp |-> frame[p].timestamp]>>
                   \o recent_activity[frame[p].user_id]]_vars

\* the timestamps of a list, head first
Timestamps(list) == [k \in 1..Len(list) |-> list[k].timestamp]

\* the newest n of the timestamps 1..last, newest first
NewestFirst(last, n) == [k \in 1..n |-> last - k + 1]

\* C23: with sequential calls on a reachable store, once the calls have
\* returned the list holds the min(n, capacity) newest of the n summaries
\* pushed, newest first; each push puts its summary at the head and each
\* trim on overflow drops the entry at the tail, the oldest.
C23_NewestFirstWithinCapacity ==
    /\ [](Quiescent =>
            \A u \in UserIds :
               Timestamps(recent_activity[u]) =
                  NewestFirst(clock, Min(clock, recent_activity_window)))
    /\ [][\A p \in Procs :
            /\ (pc[p] = "re_lpush" /\ pc'[p] # pc[p]) =>
                  /\ Len(recent_activity'[frame[p].user_id]) =
                        Len(recent_activity[frame[p].user_id]) + 1
                  /\ recent_activity'[frame[p].user_id][1] =
                        [video_id |-> frame[p].video_id,
                         event_type |-> frame[p].event_type,
                         timestamp |-> frame[p].timestamp]
                  /\ Tail(recent_activity'[frame[p].user_id]) =
                        recent_activity[frame[p].user_id]
            /\ (pc[p] = "re_ltrim" /\ pc'[p] # pc[p]) =>
                  LET before == recent_activity[frame[p].user_id]
                      after == recent_activity'[frame[p].user_id]
                  IN  /\ Len(after) = Min(Len(before), recent_activity_window)
                      /\ after = SubSeq(before, 1, Len(after))
                      /\ \A k \in (Len(after) + 1)..Len(before), j \in 1..Len(after) :
                            before[k].timestamp < after[j].timestamp]_vars

\* more summaries were pushed than the list can hold, and the list holds
\* the newest ones
C23_Witness ==
    /\ Quiescent
    /\ clock > recent_activity_window
    /\ \A u \in UserIds :
          /\ Len(recent_activity[u]) = recent_activity_window
          /\ recent_activity[u][1].timestamp = clock

\* any cap on the events of a session below the number of calls explored
SessionEventCap == MaxCalls - 1

\* C24: the events stored for one session never exceed a fixed bound,
\* however many record_event calls are made for it.
C24_SessionEventsBounded ==
    \A s \in SessionIds : event_keys[s] <= SessionEventCap

(***************************************************************************)
(* Claims about the store as seen by its readers.                          *)
(***************************************************************************)
\* C25: no step of recommend or of generate_manifest changes a session
\* record, an event record or a recent-activity list, wherever the call
\* stops.
C25_ReadersLeaveStoreUnchanged ==
    [][(rec_vars' # rec_vars \/ gen_vars' # gen_vars) =>
          /\ UNCHANGED store_vars
          /\ UNCHANGED <<pc, frame>>]_vars

\* generate_manifest stands between its two reads of a user's list and
\* recommend has answered for that user, with the list as record_event
\* left it
C25_Witness ==
    /\ rec_pc = "done"
    /\ rec_request.user_id # None
    /\ gen_pc = "likely_next"
    /\ gen_frame.read_ok
    /\ gen_frame.user_id = rec_request.user_id
    /\ recent_activity[gen_frame.user_id] # <<>>
    /\ recent_activity[gen_frame.user_id] = gen_frame.list_at_read
    /\ \E s \in SessionIds : event_keys[s] > 0

(***************************************************************************)
(* Claims about the intent classifier, checked under SpecIntent.           *)
(***************************************************************************)
\* C26: get_session_intent of both routes returns "neutral" and does not
\* raise, with or without a session id, whatever the store holds and
\* whether or not it answers.
C26_IntentAlwaysNeutral ==
    \A p \in Procs :
        ret[p].op = "get_session_intent" =>
            ret[p].value = <<"neutral">> /\ ~ret[p].raised

\* the classifier has answered for the session of a user with recorded
\* activity while the store was unreachable
C26_Witness ==
    \E p \in Procs :
        /\ ret[p].op = "get_session_intent"
        /\ ret[p].session_id # None
        /\ session_store[ret[p].session_id] # <<>>
        /\ session_store[ret[p].session_id][1].event_count > 0
        /\ ~redis_available
        /\ \E u \in UserIds : recent_activity[u] # <<>>

(***************************************************************************)
(* Claims about the activity window of the engine, checked under           *)
(* SpecWindow.                                                             *)
(***************************************************************************)
\* skips / (skips + plays) of the entries, in thousandths
SkipRatio(entries) ==
    LET skips == Cardinality({k \in 1..Len(entries) : entries[k].event_type = "skip"})
        plays == Cardinality({k \in 1..Len(entries) : entries[k].event_type = "play"})
    IN  IF skips + plays = 0 THEN 0 ELSE (skips * 1000) \div (skips + plays)

\* C27: the skip velocity of the context is taken over the 10 entries
\* nearest the head of the most-recent-first activity list, the 10 most
\* recent ones.
C27_WindowIsMostRecentTen ==
    (rec_pc = "done" /\ rec_response.context # <<>>
     /\ Len(rec_request.activity) >= 3) =>
        rec_response.context[1].skip_velocity =
           SkipRatio(SubSeq(rec_request.activity, 1, Min(10, Len(rec_request.activity))))

(***************************************************************************)
(* Claims about concurrent record_event calls, checked under               *)
(* SpecConcurrent.                                                         *)
(***************************************************************************)
\* C28: once the record_event calls made for a live session on a reachable
\* store have all returned success, event_count has grown by their number:
\* no increment is lost, however the calls interleave.
C28_NoLostIncrement ==
    Quiescent =>
        \A s \in SessionIds :
            session_store[s] # <<>> => session_store[s][1].event_count = event_keys[s]

\* no record_event call for the user stands between its push and its trim
Trimmed(u) == \A p \in Procs : ~(pc[p] = "re_ltrim" /\ frame[p].user_id = u)

\* C29: on a store that stays reachable, whenever no call for a user is
\* between its push and its trim, the user's list holds at most
\* recent_activity_window entries, however pushes and trims interleave.
C29_CapacityAtQuiescence ==
    \A u \in UserIds :
        Trimmed(u) => Len(recent_activity[u]) <= recent_activity_window

\* two calls have pushed and trimmed side by side and the list is full
C29_Witness ==
    /\ \A p \in Procs : pc[p] = "re_expire" /\ frame[p].user_id = "u1"
    /\ Trimmed("u1")
    /\ Len(recent_activity["u1"]) = recent_activity_window
    /\ clock > recent_activity_window

\* C30: when the write of the event record fails, record_event sends no
\* further command to the store: it goes straight to its return, and the
\* session record and the user's recent-activity list stay as they were.
C30_FailedWriteStopsCall ==
    [][\A p \in Procs :
          /\ (pc[p] = "re_set_event" /\ pc'[p] # pc[p] /\ ~redis_available) =>
                /\ pc'[p] = "re_return"
                /\ ~frame'[p].success
                /\ UNCHANGED store_vars
          /\ (pc[p] = "re_return" /\ pc'[p] # pc[p]) =>
                /\ pc'[p] = "done"
                /\ UNCHANGED store_vars]_vars

\* the write of the event has failed for a call that carries a play of a
\* track for the user of a live session, the store answers again, and the
\* call stands at its return
C30_Witness ==
    \E p \in Procs :
        /\ pc[p] = "re_return"
        /\ ~frame[p].success
        /\ TracksActivity(frame[p])
        /\ session_store[frame[p].session_id] # <<>>
        /\ redis_available

====
